---------------------------- MODULE Spec2Model ----------------------------
(***************************************************************************)
(* Model of jarvis.py: the AsyncTTS speech worker (a daemon thread fed by  *)
(* a queue), the wake -> listen -> interpret -> respond loop of            *)
(* listen_for_voice_commands, the two remote-call helpers and main's       *)
(* try/finally teardown.                                                    *)
(*                                                                         *)
(* Python strings are sequences of one-character strings, so that          *)
(* `in`, str.replace(.., .., 1) and str.strip() are computed as Python     *)
(* computes them.                                                          *)
(***************************************************************************)
EXTENDS Integers, Sequences, FiniteSets, TLC

(***************************************************************************)
(* Bounds of the model.                                                    *)
(***************************************************************************)
\* iterations of the `while True` loop that the model follows
MaxIter == 2
\* words per transcript in the dispatcher specification
MaxWords == 2

(***************************************************************************)
(* Strings.                                                                *)
(***************************************************************************)
EmptyStr == << >>
SP == " "

w_now      == <<"n","o","w">>
w_playing  == <<"p","l","a","y","i","n","g">>
w_played   == <<"p","l","a","y","e","d">>
w_play     == <<"p","l","a","y">>
w_stop     == <<"s","t","o","p">>
w_pause    == <<"p","a","u","s","e">>
w_resume   == <<"r","e","s","u","m","e">>
w_next     == <<"n","e","x","t">>
w_clear    == <<"c","l","e","a","r">>
w_kill     == <<"k","i","l","l">>
w_self     == <<"s","e","l","f">>
w_destruct == <<"d","e","s","t","r","u","c","t">>
w_jazz     == <<"j","a","z","z">>
w_Pause    == <<"P","a","u","s","e">>
w_Now      == <<"N","o","w">>

\* Python: k in s
Contains(s, k) ==
    \E i \in 1..(Len(s) - Len(k) + 1) : SubSeq(s, i, i + Len(k) - 1) = k

\* index of the first occurrence of k in s (k occurs in s)
FirstIndex(s, k) ==
    CHOOSE i \in 1..(Len(s) - Len(k) + 1) :
        /\ SubSeq(s, i, i + Len(k) - 1) = k
        /\ \A j \in 1..(i - 1) : SubSeq(s, j, j + Len(k) - 1) # k

\* Python: s.replace(k, "", 1)
ReplaceFirst(s, k) ==
    IF Contains(s, k)
    THEN SubSeq(s, 1, FirstIndex(s, k) - 1)
             \o SubSeq(s, FirstIndex(s, k) + Len(k), Len(s))
    ELSE s

\* Python: s.strip()
RECURSIVE LStrip(_)
LStrip(s) == IF s # << >> /\ Head(s) = SP THEN LStrip(Tail(s)) ELSE s

RECURSIVE RStrip(_)
RStrip(s) ==
    IF s # << >> /\ s[Len(s)] = SP THEN RStrip(SubSeq(s, 1, Len(s) - 1)) ELSE s

Strip(s) == RStrip(LStrip(s))

IsPrefix(p, s) == Len(p) <= Len(s) /\ SubSeq(s, 1, Len(p)) = p


RECURSIVE JoinWords(_)
\* the words of ws separated by single spaces
JoinWords(ws) ==
    IF ws = << >> THEN EmptyStr
    ELSE IF Len(ws) = 1 THEN ws[1]
    ELSE ws[1] \o <<SP>> \o JoinWords(Tail(ws))

(***************************************************************************)
(* Speech texts, queue entries, commands.                                  *)
(***************************************************************************)
\* a str handed to speak_async: a fixed phrase, or f"Playing {song}"
Phrase(p) == [say |-> p, arg |-> EmptyStr]
Playing(song) == [say |-> "Playing", arg |-> song]
\* the sentinel None of iter(self._q.get, None)
NoneText == [say |-> "None", arg |-> EmptyStr]

\* a queue entry; id is the ordinal of the speak_async call (0: the sentinel)
Entry(n, text) == [id |-> n, text |-> text]
NoEntry == Entry(0, NoneText)

NoRequest == << >>
CommandRequest(name) == <<[op |-> "command", name |-> name, query |-> EmptyStr]>>
PlayRequest(song) == <<[op |-> "play", name |-> "play", query |-> song]>>

Command(name, song, speak, request, exit) ==
    [name |-> name, song |-> song, speak |-> speak, request |-> request,
     exit |-> exit]

NoCommand == Command("None", EmptyStr, << >>, NoRequest, FALSE)

\* play branches that answer an empty song like an unknown command
PlaySongOrSorry(t, kw) ==
    LET song == Strip(ReplaceFirst(t, kw))
    IN  IF song # EmptyStr
        THEN Command("PlaySong", song, <<Playing(song)>>, PlayRequest(song), FALSE)
        ELSE Command("PlaySong", song,
                     <<Phrase("Sorry, I didn't understand that command.")>>,
                     NoRequest, FALSE)

\* the body of the "played" / "play" branches
PlaySong(t, kw) ==
    LET song == Strip(ReplaceFirst(t, kw))
    IN  IF song # EmptyStr
        THEN Command("PlaySong", song, <<Playing(song)>>, PlayRequest(song), FALSE)
        ELSE Command("PlaySong", song, << >>, NoRequest, FALSE)

Simple(name, phrase, endpoint) ==
    Command(name, EmptyStr, <<Phrase(phrase)>>, CommandRequest(endpoint), FALSE)

\* the exit branch without its `break`
SelfDestructNoBreak ==
    Command("SelfDestruct", EmptyStr, <<Phrase("Goodbye.")>>, NoRequest, FALSE)

\* the exit branch: speak_async("Goodbye.") and break
SelfDestruct ==
    Command("SelfDestruct", EmptyStr, <<Phrase("Goodbye.")>>, NoRequest, TRUE)

\* the else branch
Unrecognized ==
    Command("Unrecognized", EmptyStr,
            <<Phrase("Sorry, I didn't understand that command.")>>,
            NoRequest, FALSE)

\* a dispatcher that tries "play" before "played"
InterpretPlayFirst(t) ==
    IF Contains(t, w_now) /\ Contains(t, w_playing)
        THEN Simple("NowPlaying", "Now playing.", "now-playing")
    ELSE IF Contains(t, w_play) THEN PlaySong(t, w_play)
    ELSE IF Contains(t, w_stop) THEN Simple("Stop", "Stopping.", "stop")
    ELSE IF Contains(t, w_pause) THEN Simple("Pause", "Pausing.", "pause")
    ELSE IF Contains(t, w_resume) THEN Simple("Resume", "Resuming.", "resume")
    ELSE IF Contains(t, w_next) THEN Simple("Next", "Skipping.", "next")
    ELSE IF Contains(t, w_clear) THEN Simple("Clear", "Clearing.", "clear")
    ELSE IF \/ Contains(t, w_kill) /\ Contains(t, w_self)
            \/ Contains(t, w_self) /\ Contains(t, w_destruct)
        THEN SelfDestruct
    ELSE Unrecognized

\* the if / elif chain of listen_for_voice_commands, on the transcript as is
Interpret(t) ==
    IF Contains(t, w_now) /\ Contains(t, w_playing)
        THEN Simple("NowPlaying", "Now playing.", "now-playing")
    ELSE IF Contains(t, w_played) THEN PlaySong(t, w_played)
    ELSE IF Contains(t, w_play) THEN PlaySong(t, w_play)
    ELSE IF Contains(t, w_stop) THEN Simple("Stop", "Stopping.", "stop")
    ELSE IF Contains(t, w_pause) THEN Simple("Pause", "Pausing.", "pause")
    ELSE IF Contains(t, w_resume) THEN Simple("Resume", "Resuming.", "resume")
    ELSE IF Contains(t, w_next) THEN Simple("Next", "Skipping.", "next")
    ELSE IF Contains(t, w_clear) THEN Simple("Clear", "Clearing.", "clear")
    ELSE IF \/ Contains(t, w_kill) /\ Contains(t, w_self)
            \/ Contains(t, w_self) /\ Contains(t, w_destruct)
        THEN SelfDestruct
    ELSE Unrecognized

(***************************************************************************)
(* The remote-call helpers.  outcome is what requests.post(..).json() does: *)
(* "ok", "transport_error" (post raises) or "decode_error" (.json raises). *)
(***************************************************************************)
Outcomes == {"ok", "transport_error", "decode_error"}

Call(name, query, outcome, result, raised, logged, diag) ==
    [name |-> name, query |-> query, outcome |-> outcome, posts |-> 1,
     result |-> result, raised |-> raised, logged |-> logged, diag |-> diag]

\* send_command without its try / except
send_command_uncaught(command, outcome) ==
    IF outcome = "ok"
    THEN Call(command, EmptyStr, outcome, "response", FALSE, 1, 0)
    ELSE Call(command, EmptyStr, outcome, "None", TRUE, 0, 0)

send_command(command, outcome) ==
    IF outcome = "ok"
    THEN Call(command, EmptyStr, outcome, "response", FALSE, 1, 0)
    ELSE Call(command, EmptyStr, outcome, "None", FALSE, 0, 1)

\* send_play_command logging the packet before it is sent
send_play_command_log_first(song_name, outcome) ==
    IF outcome = "ok"
    THEN Call("play", song_name, outcome, "response", FALSE, 1, 0)
    ELSE Call("play", song_name, outcome, "None", FALSE, 1, 1)

send_play_command(song_name, outcome) ==
    IF outcome = "ok"
    THEN Call("play", song_name, outcome, "response", FALSE, 1, 0)
    ELSE Call("play", song_name, outcome, "None", FALSE, 0, 1)

(***************************************************************************)
(* The program state.                                                      *)
(***************************************************************************)
VARIABLES
    pc,            \* where the main thread is
    exc,           \* an exception is propagating out of main
    iter,          \* iterations of the while loop begun
    stream,        \* shared_stream: "unopened", "open" or "closed"
    closes,        \* calls of shared_stream.close()
    paTerminated,  \* _pa.terminate() was called
    shutdowns,     \* calls of tts.shutdown()
    transcript,    \* the local transcript of listen_for_voice_commands
    partial,       \* the loop variable of `for partial in ...`
    cmd,           \* the branch of the if / elif chain taken
    q,             \* tts._q
    nsub,          \* calls of tts.speak_async so far
    nstop,         \* calls of tts.stop() so far
    lastStop,      \* nsub at the last call of tts.stop()
    qAtStop,       \* tts._q as the last call of tts.stop() found it
    engine,        \* hasattr(tts, "engine")
    wpc,           \* where the worker thread is
    cur,           \* the worker's local text
    engineQueued,  \* engine.say(text) is queued in the engine, not yet run
    stopped,       \* engine.stop() hit the utterance being vocalized
    vocal,         \* what the engine did: [id, ev], ev start/end/cut/dropped
    remote         \* the remote calls made, in order

vars == <<pc, exc, iter, stream, closes, paTerminated, shutdowns, transcript,
          partial, cmd, q, nsub, nstop, lastStop, qAtStop, engine, wpc, cur,
          engineQueued,
          stopped, vocal, remote>>

mainVars == <<pc, exc, iter, stream, closes, paTerminated, shutdowns,
              transcript, partial, cmd, remote>>
workerVars == <<engine, wpc, cur, engineQueued, stopped, vocal>>
ttsCalls == <<q, nsub, nstop, lastStop, qAtStop>>

\* the final transcripts the transcriber delivers in the loop specification
LoopTranscripts ==
    { JoinWords(<<w_pause>>), JoinWords(<<w_play>>),
      JoinWords(<<w_play, w_jazz>>), JoinWords(<<w_self, w_destruct>>) }

\* module level, after tts = AsyncTTS(): the worker thread is started, the
\* stream is about to be opened
Init ==
    /\ pc = "Startup"
    /\ exc = FALSE
    /\ iter = 0
    /\ stream = "unopened"
    /\ closes = 0
    /\ paTerminated = FALSE
    /\ shutdowns = 0
    /\ transcript = EmptyStr
    /\ partial = EmptyStr
    /\ cmd = NoCommand
    /\ q = << >>
    /\ nsub = 0
    /\ nstop = 0
    /\ lastStop = 0
    /\ qAtStop = << >>
    /\ engine = FALSE
    /\ wpc = "init"
    /\ cur = NoEntry
    /\ engineQueued = FALSE
    /\ stopped = FALSE
    /\ vocal = << >>
    /\ remote = << >>

(***************************************************************************)
(* AsyncTTS.                                                               *)
(***************************************************************************)
\* a queue that hands out its newest entry
DequeueLast(queue) ==
    [item |-> queue[Len(queue)], rest |-> SubSeq(queue, 1, Len(queue) - 1)]

\* queue.Queue.get on a non-empty queue
Dequeue(queue) == [item |-> Head(queue), rest |-> Tail(queue)]

Alive == pc # "ProcessExited"

\* self.engine = pyttsx3.init()
WorkerInit ==
    /\ Alive /\ wpc = "init"
    /\ engine' = TRUE
    /\ wpc' = "get"
    /\ UNCHANGED <<mainVars, ttsCalls, cur, engineQueued, stopped, vocal>>

\* text = self._q.get(); the sentinel ends the iteration and the thread
WorkerGet ==
    /\ Alive /\ wpc = "get" /\ q # << >>
    /\ q' = Dequeue(q).rest
    /\ IF Dequeue(q).item.text = NoneText
       THEN wpc' = "done" /\ cur' = NoEntry
       ELSE wpc' = "say" /\ cur' = Dequeue(q).item
    /\ UNCHANGED <<mainVars, nsub, nstop, lastStop, qAtStop, engine, engineQueued,
                   stopped, vocal>>

\* self.engine.say(text)
WorkerSay ==
    /\ Alive /\ wpc = "say"
    /\ engineQueued' = TRUE
    /\ wpc' = "run"
    /\ UNCHANGED <<mainVars, ttsCalls, engine, cur, stopped, vocal>>

\* self.engine.runAndWait() starts on what say() queued
WorkerRunStart ==
    /\ Alive /\ wpc = "run"
    /\ engineQueued' = FALSE
    /\ stopped' = FALSE
    /\ IF engineQueued
       THEN /\ wpc' = "speaking"
            /\ vocal' = Append(vocal, [id |-> cur.id, ev |-> "start"])
            /\ cur' = cur
       ELSE /\ wpc' = "get"
            /\ vocal' = Append(vocal, [id |-> cur.id, ev |-> "dropped"])
            /\ cur' = NoEntry
    /\ UNCHANGED <<mainVars, ttsCalls, engine>>

\* self.engine.runAndWait() returns
WorkerRunEnd ==
    /\ Alive /\ wpc = "speaking"
    /\ vocal' = Append(vocal, [id |-> cur.id,
                               ev |-> IF stopped THEN "cut" ELSE "end"])
    /\ wpc' = "get"
    /\ cur' = NoEntry
    /\ stopped' = FALSE
    /\ UNCHANGED <<mainVars, ttsCalls, engine, engineQueued>>

Worker == WorkerInit \/ WorkerGet \/ WorkerSay \/ WorkerRunStart \/ WorkerRunEnd

\* a speak_async on a queue of one slot: put() waits for the worker
speak_async_bounded(text) ==
    /\ Len(q) < 1
    /\ q' = Append(q, Entry(nsub + 1, text))
    /\ nsub' = nsub + 1

\* tts.speak_async(text)
speak_async(text) ==
    /\ q' = Append(q, Entry(nsub + 1, text))
    /\ nsub' = nsub + 1

\* what engine.stop() does to the engine: it ends the utterance being
\* vocalized; called unsynchronized between say() and runAndWait() it may or
\* may not clear the command say() queued
EngineStop(drop) ==
    /\ stopped' = (stopped \/ wpc = "speaking")
    /\ engineQueued' = (engineQueued /\ ~(wpc = "run" /\ drop))

(***************************************************************************)
(* Module level: the shared stream is opened.                              *)
(***************************************************************************)
\* shared_stream = _pa.open(...)
OpenStream ==
    /\ pc = "Startup"
    /\ stream' = "open"
    /\ pc' = "WaitingForWake"
    /\ UNCHANGED <<exc, iter, closes, paTerminated, shutdowns, transcript, partial,
                   cmd, remote, ttsCalls, workerVars>>

\* _pa.open(...) raises: the module body ends, main() is never called
OpenStreamFails ==
    /\ pc = "Startup"
    /\ exc' = TRUE
    /\ pc' = "ProcessExited"
    /\ wpc' = IF wpc = "done" THEN "done" ELSE "killed"
    /\ UNCHANGED <<iter, stream, closes, paTerminated, shutdowns, transcript, partial,
                   cmd, remote, ttsCalls, engine, cur, engineQueued, stopped,
                   vocal>>

(***************************************************************************)
(* listen_for_voice_commands.                                              *)
(***************************************************************************)
\* a loop that goes from wake detection straight to the acknowledgment
WakeDetectedNoStop ==
    /\ pc = "WaitingForWake" /\ iter < MaxIter
    /\ iter' = iter + 1
    /\ pc' = "Acknowledging.speak"
    /\ UNCHANGED <<exc, stream, closes, paTerminated, shutdowns, transcript, partial,
                   cmd, remote, ttsCalls, workerVars>>

\* wait_for_wake_word(shared_stream) returns
WakeDetected ==
    /\ pc = "WaitingForWake" /\ iter < MaxIter
    /\ iter' = iter + 1
    /\ pc' = "Acknowledging.stop"
    /\ UNCHANGED <<exc, stream, closes, paTerminated, shutdowns, transcript, partial,
                   cmd, remote, ttsCalls, workerVars>>

\* an error handler in the loop that releases the stream and listens again
WakeRaisesCloseAndRetry ==
    /\ pc = "WaitingForWake"
    /\ stream' = "closed"
    /\ closes' = closes + 1
    /\ pc' = "WaitingForWake"
    /\ UNCHANGED <<exc, iter, paTerminated, shutdowns, transcript, partial,
                   cmd, remote, ttsCalls, workerVars>>

\* an error of the wake detector that leaves main without its finally block
WakeRaisesNoFinally ==
    /\ pc = "WaitingForWake"
    /\ exc' = TRUE
    /\ pc' = "MainReturned"
    /\ UNCHANGED <<iter, stream, closes, paTerminated, shutdowns, transcript,
                   partial, cmd, remote, ttsCalls, workerVars>>

\* wait_for_wake_word(shared_stream) raises
WakeRaises ==
    /\ pc = "WaitingForWake"
    /\ exc' = TRUE
    /\ pc' = "Exiting"
    /\ UNCHANGED <<iter, stream, closes, paTerminated, shutdowns, transcript, partial,
                   cmd, remote, ttsCalls, workerVars>>

\* a stop() that also empties the queue
InterruptFlush ==
    /\ pc = "Acknowledging.stop"
    /\ nstop' = nstop + 1
    /\ lastStop' = nsub
    /\ qAtStop' = q
    /\ q' = << >>
    /\ IF engine
       THEN \E drop \in BOOLEAN : EngineStop(drop)
       ELSE UNCHANGED <<stopped, engineQueued>>
    /\ pc' = "Acknowledging.speak"
    /\ UNCHANGED <<exc, iter, stream, closes, paTerminated, shutdowns,
                   transcript, partial, cmd, remote, nsub, engine, wpc, cur, vocal>>

\* tts.stop(): if hasattr(self, "engine"): self.engine.stop()
Interrupt ==
    /\ pc = "Acknowledging.stop"
    /\ nstop' = nstop + 1
    /\ lastStop' = nsub
    /\ qAtStop' = q
    /\ IF engine
       THEN \E drop \in BOOLEAN : EngineStop(drop)
       ELSE UNCHANGED <<stopped, engineQueued>>
    /\ pc' = "Acknowledging.speak"
    /\ UNCHANGED <<exc, iter, stream, closes, paTerminated, shutdowns,
                   transcript, partial, cmd, remote, q, nsub, engine, wpc, cur, vocal>>

\* tts.speak_async("Yes???"); transcript = ""
Acknowledge ==
    /\ pc = "Acknowledging.speak"
    /\ speak_async(Phrase("Yes???"))
    /\ transcript' = EmptyStr
    /\ partial' = partial
    /\ pc' = "Listening"
    /\ UNCHANGED <<exc, iter, stream, closes, paTerminated, shutdowns, cmd,
                   remote, nstop, lastStop, qAtStop, workerVars>>

\* a loop body that keeps the first partial
PartialKeepsFirst ==
    /\ pc = "Listening"
    /\ \E p \in LoopTranscripts :
          /\ IsPrefix(partial, p) \/ transcript = EmptyStr
          /\ p # transcript
          /\ partial' = p
          /\ transcript' = IF transcript = EmptyStr THEN partial' ELSE transcript
    /\ UNCHANGED <<pc, exc, iter, stream, closes, paTerminated, shutdowns,
                   cmd, remote, ttsCalls, workerVars>>

\* one turn of `for partial in record_and_transcribe(shared_stream)`:
\* transcript = partial, each partial a continuation of the one before
Partial ==
    /\ pc = "Listening"
    /\ \E p \in LoopTranscripts :
          /\ IsPrefix(transcript, p) /\ p # transcript
          /\ partial' = p
          /\ transcript' = partial'
    /\ UNCHANGED <<pc, exc, iter, stream, closes, paTerminated, shutdowns,
                   cmd, remote, ttsCalls, workerVars>>

\* record_and_transcribe raises while it is driven
TranscribeRaises ==
    /\ pc = "Listening"
    /\ exc' = TRUE
    /\ pc' = "Exiting"
    /\ UNCHANGED <<iter, stream, closes, paTerminated, shutdowns, transcript, partial,
                   cmd, remote, ttsCalls, workerVars>>

\* the sequence of partials is exhausted
TranscriptDone ==
    /\ pc = "Listening"
    /\ pc' = "Interpreting"
    /\ UNCHANGED <<exc, iter, stream, closes, paTerminated, shutdowns,
                   transcript, partial, cmd, remote, ttsCalls, workerVars>>

\* the conditions of the if / elif chain pick the branch
InterpretStep ==
    /\ pc = "Interpreting"
    /\ cmd' = Interpret(transcript)
    /\ pc' = "Dispatching"
    /\ UNCHANGED <<exc, iter, stream, closes, paTerminated, shutdowns,
                   transcript, partial, remote, ttsCalls, workerVars>>

\* a branch that sends its request without having spoken
DispatchSendsUnspoken ==
    /\ pc = "Dispatching"
    /\ IF cmd.speak # << >> /\ cmd.request = NoRequest
       THEN speak_async(cmd.speak[1])
       ELSE UNCHANGED <<q, nsub>>
    /\ pc' = IF cmd.exit THEN "Exiting"
             ELSE IF cmd.request # NoRequest THEN "RemoteCall"
             ELSE "WaitingForWake"
    /\ UNCHANGED <<exc, iter, stream, closes, paTerminated, shutdowns,
                   transcript, partial, cmd, remote, nstop, lastStop, qAtStop,
                   workerVars>>

\* the branch's tts.speak_async(...), then its send, its break, or the next
\* turn of the loop
Dispatch ==
    /\ pc = "Dispatching"
    /\ IF cmd.speak # << >>
       THEN speak_async(cmd.speak[1])
       ELSE UNCHANGED <<q, nsub>>
    /\ pc' = IF cmd.exit THEN "Exiting"
             ELSE IF cmd.request # NoRequest THEN "RemoteCall"
             ELSE "WaitingForWake"
    /\ UNCHANGED <<exc, iter, stream, closes, paTerminated, shutdowns,
                   transcript, partial, cmd, remote, nstop, lastStop, qAtStop, workerVars>>

\* send_command(name) / send_play_command(song), synchronous
RemoteCall ==
    /\ pc = "RemoteCall"
    /\ \E outcome \in Outcomes :
          LET req == cmd.request[1]
              r == IF req.op = "play"
                   THEN send_play_command(req.query, outcome)
                   ELSE send_command(req.name, outcome)
          IN  /\ remote' = Append(remote, r)
              /\ exc' = r.raised
              /\ pc' = IF r.raised THEN "Exiting" ELSE "WaitingForWake"
    /\ UNCHANGED <<iter, stream, closes, paTerminated, shutdowns, transcript, partial,
                   cmd, ttsCalls, workerVars>>

(***************************************************************************)
(* main's finally block, and the end of the process.                       *)
(***************************************************************************)
\* shared_stream.close()
CloseStream ==
    /\ pc = "Exiting"
    /\ stream' = "closed"
    /\ closes' = closes + 1
    /\ pc' = "Teardown.terminate"
    /\ UNCHANGED <<exc, iter, paTerminated, shutdowns, transcript, partial, cmd,
                   remote, ttsCalls, workerVars>>

\* _pa.terminate()
Terminate ==
    /\ pc = "Teardown.terminate"
    /\ paTerminated' = TRUE
    /\ pc' = "Teardown.shutdown"
    /\ UNCHANGED <<exc, iter, stream, closes, shutdowns, transcript, partial, cmd,
                   remote, ttsCalls, workerVars>>

\* a shutdown() that also stops the engine
ShutdownStopsEngine ==
    /\ pc = "Teardown.shutdown"
    /\ q' = Append(q, Entry(0, NoneText))
    /\ shutdowns' = shutdowns + 1
    /\ pc' = "MainReturned"
    /\ IF engine THEN EngineStop(TRUE) ELSE UNCHANGED <<stopped, engineQueued>>
    /\ UNCHANGED <<exc, iter, stream, closes, paTerminated, transcript,
                   partial, cmd, remote, nsub, nstop, lastStop, qAtStop,
                   engine, wpc, cur, vocal>>

\* tts.shutdown(): self._q.put(None), nothing else
Shutdown ==
    /\ pc = "Teardown.shutdown"
    /\ q' = Append(q, Entry(0, NoneText))
    /\ shutdowns' = shutdowns + 1
    /\ pc' = "MainReturned"
    /\ UNCHANGED <<exc, iter, stream, closes, paTerminated, transcript, partial, cmd,
                   remote, nsub, nstop, lastStop, qAtStop,
                   workerVars>>

\* main() has returned (or its exception reached the top): the interpreter
\* exits without waiting for the daemon thread
ProcessExit ==
    /\ pc = "MainReturned"
    /\ pc' = "ProcessExited"
    /\ wpc' = IF wpc = "done" THEN "done" ELSE "killed"
    /\ UNCHANGED <<exc, iter, stream, closes, paTerminated, shutdowns,
                   transcript, partial, cmd, remote, ttsCalls, engine, cur,
                   engineQueued, stopped, vocal>>

Main ==
    \/ OpenStream \/ OpenStreamFails
    \/ WakeDetected \/ WakeRaises
    \/ Interrupt \/ Acknowledge
    \/ Partial \/ TranscribeRaises \/ TranscriptDone
    \/ InterpretStep \/ Dispatch \/ RemoteCall
    \/ CloseStream \/ Terminate \/ Shutdown \/ ProcessExit

\* who is reading shared_stream: wait_for_wake_word(shared_stream) is in
\* progress, or the generator record_and_transcribe(shared_stream) is driven
Readers ==
    (IF pc = "WaitingForWake" THEN {"wait_for_wake_word"} ELSE {})
        \cup (IF pc = "Listening" THEN {"record_and_transcribe"} ELSE {})

Next == Main \/ Worker

Spec == Init /\ [][Next]_vars

(***************************************************************************)
(* The dispatcher on its own: the loop stands at the end of the first      *)
(* listening phase (stream open, "Yes???" queued, worker not yet           *)
(* scheduled) with any transcript of up to MaxWords words.                 *)
(***************************************************************************)
DispatchWords ==
    { w_now, w_playing, w_played, w_play, w_stop, w_pause, w_resume, w_next,
      w_clear, w_kill, w_self, w_destruct, w_jazz, w_Pause, w_Now }

RECURSIVE WordSeqs(_)
\* the sequences of exactly n words
WordSeqs(n) ==
    IF n = 0 THEN { << >> }
    ELSE { <<w>> \o ws : w \in DispatchWords, ws \in WordSeqs(n - 1) }

DispatchTranscripts ==
    UNION { { JoinWords(ws) : ws \in WordSeqs(n) } : n \in 0..MaxWords }

DispatchInit ==
    /\ pc = "Interpreting"
    /\ exc = FALSE
    /\ iter = 1
    /\ stream = "open"
    /\ closes = 0
    /\ paTerminated = FALSE
    /\ shutdowns = 0
    /\ transcript \in DispatchTranscripts
    /\ partial = transcript
    /\ cmd = NoCommand
    /\ q = <<Entry(1, Phrase("Yes???"))>>
    /\ nsub = 1
    /\ nstop = 1
    /\ lastStop = 0
    /\ qAtStop = << >>
    /\ engine = FALSE
    /\ wpc = "init"
    /\ cur = NoEntry
    /\ engineQueued = FALSE
    /\ stopped = FALSE
    /\ vocal = << >>
    /\ remote = << >>

DispatchNext == InterpretStep \/ Dispatch \/ RemoteCall

DispatchSpec == DispatchInit /\ [][DispatchNext]_vars

(***************************************************************************)
(* Properties.                                                             *)
(***************************************************************************)
Last(seq) == seq[Len(seq)]

\* the positions of vocal at which the worker takes up an entry
Handled == { i \in 1..Len(vocal) : vocal[i].ev \in {"start", "dropped"} }

\* the main thread is past tts.shutdown()
ShutdownReturned == pc \in {"MainReturned", "ProcessExited"}

\* C1: FIFO.  The worker takes up the texts in the order of their
\* speak_async calls, none out of turn (the k-th text it takes up is the
\* k-th submitted); a vocalization that has started ends before anything
\* else happens in the engine (or the process ends); and a text submitted
\* after the last stop()
\* is never cut short or dropped, so texts with no interrupt among or after
\* them are each vocalized in full, one after the other.
C1_FIFO ==
    /\ \A i \in Handled :
          vocal[i].id = Cardinality({ j \in Handled : j <= i })
    /\ \A i \in 1..Len(vocal) :
          /\ vocal[i].ev = "start" /\ i < Len(vocal)
                => /\ vocal[i + 1].ev \in {"end", "cut"}
                   /\ vocal[i + 1].id = vocal[i].id
          /\ vocal[i].ev \in {"end", "cut"}
                => i > 1 /\ vocal[i - 1] = [id |-> vocal[i].id, ev |-> "start"]
          /\ vocal[i].ev \in {"cut", "dropped"} => vocal[i].id <= lastStop
    /\ wpc = "speaking" => vocal # << >> /\ Last(vocal).ev = "start"
    /\ vocal # << >> /\ Last(vocal).ev = "start" => wpc \in {"speaking", "killed"}

\* two texts submitted after the last stop() have both been vocalized in full
C1_Witness ==
    \E i, j \in 1..Len(vocal) :
        /\ i < j
        /\ vocal[i] = [id |-> lastStop + 1, ev |-> "end"]
        /\ vocal[j] = [id |-> lastStop + 2, ev |-> "end"]

\* the ids of the texts waiting in the queue, in queue order
PendingIds == [i \in 1..Len(q) |-> q[i].id]
IsSentinel(e) == e.text = NoneText

\* C2: stop() leaves the queue as it is (same entries, same order); no
\* entry that was waiting in the queue at the last stop() is ever lost: it
\* is still waiting, or the worker holds it, or the worker has taken it up;
\* and the entries waiting in the queue are always the most recent
\* submissions, in submission order, all later than anything the worker
\* has taken up, so that what was pending at an interrupt is what the
\* worker takes up next, in its original order.
C2_InterruptKeepsQueue ==
    /\ [][nstop' # nstop => q' = q /\ qAtStop' = q]_vars
    /\ [](\A i \in 1..Len(qAtStop) :
             \/ \E j \in 1..Len(q) : q[j] = qAtStop[i]
             \/ cur = qAtStop[i]
             \/ \E k \in 1..Len(vocal) : vocal[k].id = qAtStop[i].id)
    /\ [](\A i \in 1..Len(q) :
             ~IsSentinel(q[i]) =>
                 /\ q[i].id = nsub - Cardinality({ j \in i + 1..Len(q) :
                                                     ~IsSentinel(q[j]) })
                 /\ \A k \in 1..Len(vocal) : vocal[k].id < q[i].id
                 /\ cur.id < q[i].id)

\* the second stop() found two texts waiting in the queue; both have been
\* vocalized since, in their order
C2_Witness ==
    /\ nstop = 2
    /\ Len(qAtStop) = 2
    /\ qAtStop[1].id = 1 /\ qAtStop[2].id = 2
    /\ \E i, j \in 1..Len(vocal) :
          /\ i < j
          /\ vocal[i] = [id |-> 1, ev |-> "end"]
          /\ vocal[j] = [id |-> 2, ev |-> "end"]

\* C3: shutdown() enqueues the sentinel and returns only once the worker
\* has taken the sentinel and ended.
C3_ShutdownWaitsForWorker ==
    ShutdownReturned /\ shutdowns > 0 => wpc = "done"

\* the texts whose vocalization has run to its end
Vocalized == { vocal[i].id : i \in { k \in 1..Len(vocal) : vocal[k].ev = "end" } }

\* C4: when the process exits after a shutdown(), every text submitted
\* before the shutdown() has been vocalized and the worker has ended.
C4_NoSpeechLostAtExit ==
    pc = "ProcessExited" /\ shutdowns > 0 =>
        /\ wpc = "done"
        /\ \A n \in 1..nsub : n \in Vocalized

\* C5: once shutdown() has returned no vocalization starts; the sentinel is
\* never vocalized; the worker, once ended, stays ended.
C5_NothingVocalizedAfterShutdown ==
    [][/\ ShutdownReturned => Len(vocal') = Len(vocal) \/ Last(vocal').ev # "start"
       /\ \A i \in 1..Len(vocal') : vocal'[i].id # 0
       /\ wpc = "done" => wpc' = "done"]_vars

\* the fixed order of one iteration, as steps of the main thread
LoopOrder ==
    { <<"WaitingForWake", "Acknowledging.stop">>,
      <<"Acknowledging.stop", "Acknowledging.speak">>,
      <<"Acknowledging.speak", "Listening">>,
      <<"Listening", "Interpreting">>,
      <<"Interpreting", "Dispatching">>,
      <<"Dispatching", "RemoteCall">>,
      <<"Dispatching", "WaitingForWake">>,
      <<"Dispatching", "Exiting">>,
      <<"RemoteCall", "WaitingForWake">> }

InLoop ==
    { "WaitingForWake", "Acknowledging.stop", "Acknowledging.speak",
      "Listening", "Interpreting", "Dispatching", "RemoteCall" }

\* C6: the loop is entered in WaitingForWake, and every step the main
\* thread takes inside the loop is the next one of the fixed order: wake
\* detection returns, stop() is called (once), "Yes???" is enqueued (once),
\* the transcriber is driven until it is exhausted, the command is derived,
\* its response is enqueued and its remote call made; Dispatching leaves
\* for Exiting exactly for SelfDestruct, and otherwise the loop is back in
\* WaitingForWake.  The only other way out of a step is an exception of the
\* wake detector or the transcriber, which ends the loop.
C6_FixedOrder ==
    [][pc' # pc =>
         /\ pc = "Startup" => pc' \in {"WaitingForWake", "ProcessExited"}
         /\ pc \in InLoop =>
               \/ <<pc, pc'>> \in LoopOrder
               \/ pc \in {"WaitingForWake", "Listening"} /\ pc' = "Exiting" /\ exc'
         /\ pc' = "WaitingForWake" =>
               pc \in {"Startup", "Dispatching", "RemoteCall"}
         /\ pc = "Acknowledging.stop" =>
               nstop' = nstop + 1 /\ q' = q /\ nsub' = nsub
         /\ pc = "Acknowledging.speak" =>
               /\ q' = Append(q, Entry(nsub + 1, Phrase("Yes???")))
               /\ nstop' = nstop /\ nsub' = nsub + 1
         /\ pc \notin {"Acknowledging.stop"} => nstop' = nstop
         /\ pc \notin {"Acknowledging.speak", "Dispatching"} => nsub' = nsub
         /\ pc = "Dispatching" =>
               /\ pc' = "Exiting" <=> cmd.name = "SelfDestruct"
               /\ nsub' \in {nsub, nsub + 1}
         /\ pc = "RemoteCall" => cmd.name # "SelfDestruct"]_vars

\* a second iteration has been completed: the loop waits for the third wake
C6_Witness ==
    /\ pc = "WaitingForWake"
    /\ iter = 2
    /\ nstop = 2
    /\ cmd.name = "Pause"
    /\ Len(remote) = 2

\* the transcript asks for self-destruction and no earlier rule matches
AsksSelfDestruct(t) ==
    /\ \/ Contains(t, w_kill) /\ Contains(t, w_self)
       \/ Contains(t, w_self) /\ Contains(t, w_destruct)
    /\ ~(Contains(t, w_now) /\ Contains(t, w_playing))
    /\ \A k \in {w_played, w_play, w_stop, w_pause, w_resume, w_next, w_clear} :
          ~Contains(t, k)

ExitStates ==
    { "Exiting", "Teardown.terminate", "Teardown.shutdown", "MainReturned",
      "ProcessExited" }

\* C7: dispatching a SelfDestruct transcript enqueues the one farewell,
\* makes no remote call and moves to Exiting; from Exiting on the loop is
\* never back in wake detection or transcription, nothing more is spoken,
\* no remote call is made.
C7_SelfDestructExits ==
    [][/\ pc = "Dispatching" /\ pc' # pc /\ AsksSelfDestruct(transcript) =>
             /\ q' = Append(q, Entry(nsub + 1, Phrase("Goodbye.")))
             /\ nsub' = nsub + 1
             /\ remote' = remote
             /\ pc' = "Exiting"
       /\ pc \in ExitStates =>
             /\ pc' \in ExitStates
             /\ nsub' = nsub /\ remote' = remote /\ iter' = iter
             /\ transcript' = transcript]_vars

\* the farewell is queued and the loop has left for Exiting
C7_Witness ==
    /\ pc = "Exiting" /\ ~exc
    /\ AsksSelfDestruct(transcript)
    /\ q # << >> /\ Last(q) = Entry(nsub, Phrase("Goodbye."))

\* C10: a remote call is one POST; when the transport or the decoding
\* fails the helper returns None and raises nothing; and whatever the
\* outcome the call's only effect on the program is its record: the loop
\* goes on to WaitingForWake with everything else as it was.
C10_RemoteFailureSwallowed ==
    [][pc = "RemoteCall" /\ pc' # pc =>
         /\ Len(remote') = Len(remote) + 1
         /\ SubSeq(remote', 1, Len(remote)) = remote
         /\ Last(remote').posts = 1
         /\ Last(remote').outcome # "ok" =>
               Last(remote').result = "None" /\ ~Last(remote').raised
         /\ ~exc'
         /\ pc' = "WaitingForWake"
         /\ UNCHANGED <<iter, stream, closes, shutdowns, transcript, cmd, q,
                        nsub, nstop>>]_vars

\* a failed send_command and a failed send_play_command are behind the
\* loop, which waits for the next wake
C10_Witness ==
    /\ pc = "WaitingForWake"
    /\ ~exc
    /\ Len(remote) = 2
    /\ remote[1].outcome = "transport_error" /\ remote[1].name = "pause"
    /\ remote[2].outcome = "decode_error" /\ remote[2].name = "play"

\* the ordered rules: a rule matches when all keywords of one of its
\* alternatives occur in the transcript
Rules ==
    << [alts |-> {{w_now, w_playing}}, name |-> "NowPlaying",
        phrase |-> "Now playing.", endpoint |-> "now-playing"],
       [alts |-> {{w_played}}, name |-> "PlaySong",
        phrase |-> "Playing", endpoint |-> "play"],
       [alts |-> {{w_play}}, name |-> "PlaySong",
        phrase |-> "Playing", endpoint |-> "play"],
       [alts |-> {{w_stop}}, name |-> "Stop",
        phrase |-> "Stopping.", endpoint |-> "stop"],
       [alts |-> {{w_pause}}, name |-> "Pause",
        phrase |-> "Pausing.", endpoint |-> "pause"],
       [alts |-> {{w_resume}}, name |-> "Resume",
        phrase |-> "Resuming.", endpoint |-> "resume"],
       [alts |-> {{w_next}}, name |-> "Next",
        phrase |-> "Skipping.", endpoint |-> "next"],
       [alts |-> {{w_clear}}, name |-> "Clear",
        phrase |-> "Clearing.", endpoint |-> "clear"],
       [alts |-> {{w_kill, w_self}, {w_self, w_destruct}}, name |-> "SelfDestruct",
        phrase |-> "Goodbye.", endpoint |-> "none"],
       [alts |-> {{}}, name |-> "Unrecognized",
        phrase |-> "Sorry, I didn't understand that command.",
        endpoint |-> "none"] >>

RuleMatches(r, t) == \E alt \in Rules[r].alts : \A k \in alt : Contains(t, k)

FirstRule(t) ==
    CHOOSE r \in 1..Len(Rules) :
        RuleMatches(r, t) /\ \A r2 \in 1..(r - 1) : ~RuleMatches(r2, t)

\* song is t with the first occurrence of kw removed, then trimmed
IsSongOf(song, t, kw) ==
    \E i \in 1..(Len(t) - Len(kw) + 1) :
        /\ SubSeq(t, i, i + Len(kw) - 1) = kw
        /\ ~Contains(SubSeq(t, 1, i + Len(kw) - 2), kw)
        /\ LET rest == SubSeq(t, 1, i - 1) \o SubSeq(t, i + Len(kw), Len(t))
           IN  \E a \in 0..Len(rest), b \in 0..Len(rest) :
                  /\ a + Len(song) + b = Len(rest)
                  /\ SubSeq(rest, a + 1, a + Len(song)) = song
                  /\ \A n \in (1..a) \cup ((Len(rest) - b + 1)..Len(rest)) :
                        rest[n] = SP
                  /\ song # << >> => song[1] # SP /\ song[Len(song)] # SP

\* C8: the branch taken for a transcript is the one of the first rule, in
\* the fixed order, whose keywords occur in it, however many later rules
\* match as well; what is then executed is that rule's response and that
\* rule's remote call; for the two play rules the song is the transcript
\* without the first occurrence of the rule's keyword, trimmed (with an
\* empty song nothing is said and nothing is sent).
C8_FirstMatchWins ==
    cmd # NoCommand =>
        LET r == FirstRule(transcript)
            rule == Rules[r]
            kw == CHOOSE k \in CHOOSE alt \in rule.alts : TRUE : TRUE
            acts == ~(rule.name = "PlaySong" /\ cmd.song = EmptyStr)
            sends == acts /\ rule.endpoint # "none"
        IN  /\ cmd.name = rule.name
            /\ cmd.exit <=> rule.name = "SelfDestruct"
            /\ IF rule.name = "PlaySong"
               THEN IsSongOf(cmd.song, transcript, kw)
               ELSE cmd.song = EmptyStr
            /\ pc # "Dispatching" =>
                  /\ Len(q) = IF acts THEN 2 ELSE 1
                  /\ acts => Last(q).text = [say |-> rule.phrase, arg |-> cmd.song]
            /\ pc = "RemoteCall" => sends
            /\ pc \in {"WaitingForWake", "Exiting"} =>
                  /\ Len(remote) = IF sends THEN 1 ELSE 0
                  /\ sends => /\ Last(remote).name = rule.endpoint
                              /\ Last(remote).query = cmd.song

\* "played jazz" has been dispatched: the "played" rule won over "play",
\* and the play request for "jazz" has been sent
C8_Witness ==
    /\ transcript = JoinWords(<<w_played, w_jazz>>)
    /\ pc = "WaitingForWake"
    /\ Len(remote) = 1
    /\ remote[1].name = "play" /\ remote[1].query = w_jazz

\* Python: c.lower(), on the letters of the model
LowerChar(c) == IF c = "P" THEN "p" ELSE IF c = "N" THEN "n" ELSE c
\* Python: s.lower()
Lower(s) == [i \in 1..Len(s) |-> LowerChar(s[i])]

\* C9: a transcript that differs from the dispatched one only in letter
\* case is dispatched to the same command.
C9_CaseInsensitive ==
    cmd # NoCommand =>
        \A t \in DispatchTranscripts :
            Lower(t) = Lower(transcript) => Interpret(t).name = cmd.name

\* where the main thread is between two calls of its own, waiting for
\* nothing outside the program
Running ==
    { "Acknowledging.stop", "Acknowledging.speak", "Interpreting",
      "Dispatching", "Exiting", "Teardown.terminate", "Teardown.shutdown" }

\* C11: speak_async never waits.  Whenever the loop is about to enqueue
\* "Yes???" or a command's response the step can be taken at once, whatever
\* the worker is doing and however long the queue is, and it appends
\* exactly the one text; the main thread can always take its next step
\* except where it waits for the wake word, the transcriber or the remote
\* service.
C11_SpeakNeverBlocks ==
    /\ pc = "Acknowledging.speak" => ENABLED Acknowledge
    /\ pc = "Dispatching" => ENABLED Dispatch
    /\ pc \in Running => ENABLED Main
    /\ Len(q) <= nsub + shutdowns

\* a response was enqueued behind two waiting texts while the worker had
\* not even created its engine, and the loop went on
C11_Witness ==
    /\ wpc = "init" /\ ~engine
    /\ Len(q) = 3
    /\ nsub = 3
    /\ pc = "Listening"

\* C12: the shared stream has at most one reader at a time (the wake
\* detector and the transcriber are never both on it, and the worker is
\* never one of its readers); whoever reads it finds it open: it is read
\* neither before it is opened nor after it has been closed.
C12_OneReaderOfOpenStream ==
    /\ Cardinality(Readers) <= 1
    /\ Readers \subseteq {"wait_for_wake_word", "record_and_transcribe"}
    /\ Readers # {} => stream = "open" /\ closes = 0
    /\ stream = "closed" => pc \in ExitStates \ {"Exiting"}

\* the transcriber reads the stream in a second iteration, the stream open
C12_Witness ==
    /\ Readers = {"record_and_transcribe"}
    /\ iter = 2
    /\ partial # EmptyStr /\ transcript = partial
    /\ stream = "open"

\* the sentinels put on the queue and not yet taken
SentinelsQueued == Cardinality({ i \in 1..Len(q) : IsSentinel(q[i]) })

\* C13: however the loop ends (SelfDestruct, or an error of the wake
\* detector or of the transcriber), the teardown runs once: the stream is
\* never closed twice and shutdown() never called twice, and when main is
\* left the stream has been closed once and the sentinel enqueued once.
C13_TeardownOnce ==
    /\ closes <= 1 /\ shutdowns <= 1
    /\ SentinelsQueued <= shutdowns
    /\ closes = 1 <=> stream = "closed"
    /\ ShutdownReturned /\ stream # "unopened" =>
          /\ closes = 1 /\ shutdowns = 1 /\ paTerminated
          /\ SentinelsQueued = 1 \/ wpc = "done"

\* main has been left after an error of the transcriber in the second
\* iteration; stream closed once, one sentinel
C13_Witness ==
    /\ pc = "MainReturned"
    /\ exc /\ iter = 2 /\ cmd.name # "SelfDestruct"
    /\ transcript # EmptyStr
    /\ closes = 1 /\ shutdowns = 1

\* C14: when opening the audio device fails at startup the process ends,
\* but not before the teardown has run: the worker has been given the
\* sentinel and the release of the stream has been executed.
C14_TeardownOnStartupFailure ==
    pc = "ProcessExited" /\ stream = "unopened" =>
        shutdowns = 1 /\ closes = 1

\* the transcript is nothing but the keyword of a play rule and blanks
OnlyPlayKeyword(t) ==
    /\ FirstRule(t) \in {2, 3}
    /\ \E kw \in {w_played, w_play} :
          /\ Rules[FirstRule(t)].alts = {{kw}}
          /\ IsSongOf(EmptyStr, t, kw)

\* C15: a transcript that matches "played" or "play" and leaves no song
\* is dispatched without any effect: nothing is enqueued, nothing is sent,
\* no later rule is tried (the command stays the play rule's), and the
\* loop is back in WaitingForWake.
C15_EmptySongNoAction ==
    [][pc = "Dispatching" /\ pc' # pc /\ OnlyPlayKeyword(transcript) =>
         /\ cmd.name = "PlaySong" /\ cmd' = cmd
         /\ q' = q /\ nsub' = nsub
         /\ remote' = remote
         /\ ~exc'
         /\ pc' = "WaitingForWake"]_vars

\* "played" alone has been dispatched: only "Yes???" is queued, nothing was
\* sent, although the later rule "play" would have found the song "ed"
C15_Witness ==
    /\ transcript = w_played
    /\ pc = "WaitingForWake"
    /\ cmd.name = "PlaySong" /\ cmd.song = EmptyStr
    /\ Len(q) = 1 /\ nsub = 1
    /\ remote = << >>

\* C16: every call of send_command or send_play_command emits one log
\* line (log_packet) when the send and the decoding succeed and none when
\* either fails: a call that returns None has logged nothing.
C16_LogOnlyOnSuccess ==
    \A i \in 1..Len(remote) :
        /\ remote[i].outcome = "ok" => remote[i].logged = 1
        /\ remote[i].outcome # "ok" => remote[i].logged = 0
        /\ remote[i].result = "None" => remote[i].logged = 0
        /\ remote[i].logged \in {0, 1}

\* a send_play_command that failed without a log line, then a send_command
\* that succeeded with one
C16_Witness ==
    /\ Len(remote) = 2
    /\ remote[1].name = "play" /\ remote[1].outcome = "decode_error"
    /\ remote[1].logged = 0 /\ remote[1].result = "None"
    /\ remote[2].name = "pause" /\ remote[2].outcome = "ok"
    /\ remote[2].logged = 1

\* a step of the main thread (the end of the process apart)
MainStep == pc' # pc /\ pc' # "ProcessExited"
\* a step of the worker thread
WorkerStep == wpc' # wpc /\ pc' = pc

\* what only the worker touches: its position, its local text, the engine
\* attribute, what the engine has produced
WorkerOwn == <<engine, wpc, cur, vocal>>
\* the state of the engine object
EngineState == <<engineQueued, stopped>>
\* what only the main thread touches
MainOwn == <<mainVars, nsub, nstop, lastStop, qAtStop>>

\* C17 as stated: apart from the queue, nothing the worker works on is
\* touched by the main thread (the engine in particular), and nothing of
\* the main thread by the worker.
C17_OnlyQueueShared ==
    [][/\ MainStep => UNCHANGED <<WorkerOwn, EngineState>>
       /\ WorkerStep => UNCHANGED MainOwn]_vars

\* C17, amended: the queue and the speech engine are the only state both
\* threads touch, and the main thread touches the engine in stop() only:
\* every other step of the main thread leaves the engine as it is, no step
\* of it touches what is the worker's own, and no step of the worker
\* touches what is the main thread's.
C17_QueueAndEngineShared ==
    [][/\ MainStep => UNCHANGED WorkerOwn
       /\ MainStep /\ pc # "Acknowledging.stop" => UNCHANGED EngineState
       /\ WorkerStep => UNCHANGED MainOwn]_vars

\* stop(), called by the main thread, has ended the utterance the worker
\* is vocalizing
C17_Witness ==
    /\ pc = "Acknowledging.speak"
    /\ wpc = "speaking"
    /\ stopped

\* C18: stop() reaches nothing but the utterance that is being vocalized
\* when it is called: no text that had not started then is lost or cut by
\* it, so every text the worker takes up is vocalized, and one that ends
\* early was being vocalized at a stop().
C18_InterruptOnlyCurrent ==
    /\ \A i \in 1..Len(vocal) : vocal[i].ev # "dropped"
    /\ wpc = "run" => engineQueued
    /\ stopped => wpc \in {"speaking", "killed"}

\* C19: the listening phase starts with the empty transcript, whatever
\* an earlier iteration left; each partial the transcriber yields replaces
\* the transcript, so that at the end the transcript is the last partial of
\* this iteration, or empty when there was none; the command is derived
\* from that transcript alone, and from the empty one it is Unrecognized.
C19_LastPartialOnly ==
    /\ [][/\ pc # "Listening" /\ pc' = "Listening" => transcript' = EmptyStr
          /\ transcript' # transcript => pc' = "Listening"
          /\ pc = "Listening" /\ (partial' # partial \/ transcript' # transcript)
                => transcript' = partial'
          /\ pc = "Interpreting" /\ pc' # pc =>
                /\ transcript' = transcript
                /\ cmd'.name = Rules[FirstRule(transcript)].name]_vars
    /\ [](pc \in {"Listening", "Interpreting", "Dispatching", "RemoteCall"} =>
             transcript = EmptyStr \/ transcript = partial)
    /\ [](pc \in {"Dispatching", "RemoteCall"} /\ transcript = EmptyStr =>
             cmd.name = "Unrecognized")

\* the second iteration heard nothing: its transcript is empty and its
\* command Unrecognized, although the first iteration's last partial was
\* "pause"
C19_Witness ==
    /\ iter = 2
    /\ pc = "Dispatching"
    /\ partial = w_pause
    /\ transcript = EmptyStr
    /\ cmd.name = "Unrecognized"

\* the spoken response and the remote call belong to one rule
SameRule(text, call) ==
    \E r \in 1..Len(Rules) :
        /\ Rules[r].phrase = text.say
        /\ Rules[r].endpoint = call.name
        /\ text.arg = call.query

\* C20: dispatching enqueues at most one response and makes at most one
\* remote call per iteration; a rule that has both enqueues its response
\* first and sends its own request after, the response and the request
\* being the same rule's; and the loop is back in wake detection only when
\* the remote call has returned.
C20_OneResponseOneCall ==
    /\ [][/\ pc = "Dispatching" /\ pc' # pc =>
                /\ nsub' \in {nsub, nsub + 1}
                /\ remote' = remote
                /\ pc' = "RemoteCall" =>
                      /\ q' = Append(q, Entry(nsub + 1, Last(q').text))
                      /\ nsub' = nsub + 1
          /\ pc = "RemoteCall" /\ pc' # pc =>
                /\ nsub' = nsub /\ q' = q
                /\ Len(remote') = Len(remote) + 1
                /\ SameRule(cmd.speak[1], Last(remote'))
          /\ remote' # remote => pc = "RemoteCall" /\ pc' = "WaitingForWake"
          /\ pc' # pc /\ pc # "Dispatching" /\ pc' = "WaitingForWake" /\ iter > 0 =>
                pc = "RemoteCall" /\ Len(remote') = Len(remote) + 1
          /\ pc = "Dispatching" /\ pc' = "WaitingForWake" =>
                cmd.request = NoRequest]_vars
    /\ [](Len(remote) <= iter /\ nsub <= 2 * iter)
    /\ [](pc = "RemoteCall" =>
             /\ Len(remote) < iter
             /\ cmd.speak # << >>
             /\ \/ \E i \in 1..Len(q) : q[i] = Entry(nsub, cmd.speak[1])
                \/ cur = Entry(nsub, cmd.speak[1])
                \/ \E k \in 1..Len(vocal) : vocal[k].id = nsub)

\* "Pausing." was enqueued, then the pause request sent; the loop waits
\* for the next wake word
C20_Witness ==
    /\ pc = "WaitingForWake"
    /\ iter = 1
    /\ nsub = 2
    /\ Len(remote) = 1 /\ remote[1].name = "pause"
    /\ Len(q) = 2 /\ q[2].text = Phrase("Pausing.")

=============================================================================
